---- MODULE Spec2Model ----
(***************************************************************************)
(* A model of mindnlp/sentence/models/transformer.py: the Transformer      *)
(* module that resolves and loads a pretrained encoder and its tokenizer,  *)
(* tokenizes batches of texts, runs the forward pass over a feature        *)
(* dictionary, and saves / loads its JSON side-config.                     *)
(*                                                                         *)
(* Python values are tagged records, a Python str is a sequence of         *)
(* one-character strings, a Python dict is a function (an ordered dict     *)
(* where the order is read is a sequence of <<key, value>> entries).       *)
(* The model library (configs, models, tokenizers, adapters) is the        *)
(* environment: its loaders are operators over the repositories it can     *)
(* resolve, its model call is a nondeterministic choice of outputs.        *)
(***************************************************************************)
EXTENDS Integers, Sequences, FiniteSets, TLC

VARIABLES
    args,       \* the keyword arguments of the pending constructor call
    t,          \* the Transformer object (Unconstructed before __init__)
    calls,      \* the library loaders __init__ invoked, in order
    disk,       \* the directory save writes and load reads
    loaded,     \* the outcome of the last Transformer.load
    texts,      \* the batch handed to tokenize
    features,   \* the feature dictionary (a single Python object)
    tok_call,   \* the arguments of the last call of self.tokenizer
    fwd,        \* the record of the last forward call
    saved       \* what t.get_config_dict() was when t was last saved (NotSaved before)

vars == <<args, t, calls, disk, loaded, texts, features, tok_call, fwd, saved>>

(***************************************************************************)
(* Python values                                                           *)
(***************************************************************************)
PyNone == [type |-> "NoneType"]
PyBool(b) == [type |-> "bool", v |-> b]
PyInt(n) == [type |-> "int", v |-> n]
PyStr(s) == [type |-> "str", v |-> s]
PyDict(f) == [type |-> "dict", v |-> f]

EmptyDict == [k \in {} |-> PyNone]

\* dict.update / keyword override: g's entries win
Update(f, g) == [k \in (DOMAIN f) \cup (DOMAIN g) |-> IF k \in DOMAIN g THEN g[k] ELSE f[k]]

\* dict.pop(key) for a key that is present
Pop(f, key) == [k \in (DOMAIN f) \ {key} |-> f[k]]

Min(a, b) == IF a <= b THEN a ELSE b

\* the truth value of a Python object where the code tests one
Truthy(py) ==
    CASE py.type = "NoneType" -> FALSE
      [] py.type = "bool" -> py.v
      [] py.type = "int" -> py.v # 0
      [] py.type = "str" -> py.v # ""
      [] py.type = "dict" -> DOMAIN py.v # {}

(***************************************************************************)
(* JSON documents.  json.dump maps None, True, False, int and dict to      *)
(* null, true, false, a number and an object; json.load maps them back and *)
(* raises JSONDecodeError on a text that is no JSON document.              *)
(***************************************************************************)
Malformed == [j |-> "malformed"]

RECURSIVE json_dump(_)
json_dump(py) ==
    CASE py.type = "NoneType" -> [j |-> "null"]
      [] py.type = "bool" -> IF py.v THEN [j |-> "true"] ELSE [j |-> "false"]
      [] py.type = "int" -> [j |-> "number", n |-> py.v]
      [] py.type = "dict" -> [j |-> "object", m |-> [k \in DOMAIN py.v |-> json_dump(py.v[k])]]

RECURSIVE json_value(_)
json_value(doc) ==
    CASE doc.j = "null" -> PyNone
      [] doc.j = "true" -> PyBool(TRUE)
      [] doc.j = "false" -> PyBool(FALSE)
      [] doc.j = "number" -> PyInt(doc.n)
      [] doc.j = "object" -> PyDict([k \in DOMAIN doc.m |-> json_value(doc.m[k])])

json_load(doc) ==
    IF doc = Malformed
    THEN [ok |-> FALSE, error |-> "JSONDecodeError"]
    ELSE [ok |-> TRUE, value |-> json_value(doc)]

(***************************************************************************)
(* The environment: the repositories the library can resolve.  A           *)
(* repository holds a model config, a tokenizer and, for an adapter        *)
(* repository, the adapter config beside the base model it names.          *)
(***************************************************************************)
BertConfig == [class |-> "BertConfig",
               attrs |-> [max_position_embeddings |-> 4, output_hidden_states |-> FALSE]]

T5Config == [class |-> "T5Config", attrs |-> [output_hidden_states |-> FALSE]]

MT5Config == [class |-> "MT5Config", attrs |-> [output_hidden_states |-> FALSE]]

BertTokenizer == [class |-> "BertTokenizer",
                  attrs |-> [model_max_length |-> 3,
                             model_input_names |-> {"input_ids", "token_type_ids", "attention_mask"}]]

T5Tokenizer == [class |-> "T5Tokenizer",
                attrs |-> [model_max_length |-> 2,
                           model_input_names |-> {"input_ids", "attention_mask"}]]

LoraConfig == [class |-> "LoraConfig",
               attrs |-> [task_type |-> "FEATURE_EXTRACTION", is_prompt_learning |-> FALSE]]

PromptTuningConfig == [class |-> "PromptTuningConfig",
                       attrs |-> [task_type |-> "FEATURE_EXTRACTION", is_prompt_learning |-> TRUE,
                                  num_virtual_tokens |-> 2]]

PromptClsConfig == [class |-> "PromptTuningConfig",
                    attrs |-> [task_type |-> "SEQ_CLS", is_prompt_learning |-> TRUE,
                               num_virtual_tokens |-> 1]]

Repo(adapter, config, tokenizer) == [adapter |-> adapter, config |-> config, tokenizer |-> tokenizer]

Hub ==
    [name \in {"bert", "t5", "mt5", "lora", "prompt", "promptcls"} |->
        CASE name = "bert" -> Repo(PyNone, BertConfig, BertTokenizer)
          [] name = "t5" -> Repo(PyNone, T5Config, T5Tokenizer)
          [] name = "mt5" -> Repo(PyNone, MT5Config, T5Tokenizer)
          [] name = "lora" -> Repo(LoraConfig, BertConfig, BertTokenizer)
          [] name = "prompt" -> Repo(PromptTuningConfig, BertConfig, BertTokenizer)
          [] name = "promptcls" -> Repo(PromptClsConfig, BertConfig, BertTokenizer)]

\* the directory of save and load
OutputPath == "out"

\* what a name or path resolves to: the directory's saved model, a hub repository, or nothing
Resolve(d, name) ==
    IF name = OutputPath THEN d.model
    ELSE IF name \in DOMAIN Hub THEN Hub[name]
    ELSE PyNone

\* the classes of the library: each class with its base classes
Bases(class) ==
    CASE class \in {"LoraConfig", "PromptTuningConfig"} -> {class, "PeftConfig"}
      [] class = "PeftModelForFeatureExtraction" -> {class, "PeftModel"}
      [] OTHER -> {class}

isinstance(obj, class) == class \in Bases(obj.class)

hasattr(obj, name) == name \in DOMAIN obj.attrs

\* keyword arguments of a config loader become attributes of the config
ConfigOverrides(config_args) ==
    [k \in (DOMAIN config_args) \cap {"output_hidden_states"} |-> config_args[k].v]

find_adapter_config_file(repo) == repo.adapter

PeftConfig_from_pretrained(repo, config_args) == repo.adapter

AutoConfig_from_pretrained(repo, config_args) ==
    [repo.config EXCEPT !.attrs = Update(@, ConfigOverrides(config_args))]

\* the base model a loader builds; under an adapter config the library resolves the base model's own config
BaseModel(class, repo, config) ==
    [class |-> class,
     config |-> IF isinstance(config, "PeftConfig") THEN repo.config ELSE config,
     active_peft_config |-> PyNone]

AutoModelClass(repo) ==
    CASE repo.config.class = "BertConfig" -> "BertModel"
      [] repo.config.class = "T5Config" -> "T5Model"
      [] repo.config.class = "MT5Config" -> "MT5Model"

AutoModel_from_pretrained(repo, config) == BaseModel(AutoModelClass(repo), repo, config)

T5EncoderModel_from_pretrained(repo, config) == BaseModel("T5EncoderModel", repo, config)

MT5EncoderModel_from_pretrained(repo, config) == BaseModel("MT5EncoderModel", repo, config)

PeftModel_from_pretrained(model, config) ==
    [class |-> IF config.attrs.task_type = "FEATURE_EXTRACTION"
               THEN "PeftModelForFeatureExtraction" ELSE "PeftModel",
     config |-> model.config,
     active_peft_config |-> config]

\* keyword arguments of the tokenizer loader override what the repository stores
AutoTokenizer_from_pretrained(repo, tokenizer_args) ==
    [repo.tokenizer EXCEPT !.attrs =
        Update(@, [k \in (DOMAIN tokenizer_args) \cap {"model_max_length"} |-> tokenizer_args[k].v])]

(***************************************************************************)
(* Transformer.__init__ and the loaders it calls.  Each returns the        *)
(* object it builds with the library loaders it invoked.                   *)
(***************************************************************************)
\* a call of a library loader: the config it was given (a config loader: the config it returned)
Call(fn, config, kwargs) == [fn |-> fn, config |-> config, kwargs |-> kwargs]

_load_config(repo, config_args) ==
    IF find_adapter_config_file(repo) # PyNone
    THEN LET config == PeftConfig_from_pretrained(repo, config_args)
         IN  [config |-> config, calls |-> <<Call("PeftConfig.from_pretrained", config, config_args)>>]
    ELSE LET config == AutoConfig_from_pretrained(repo, config_args)
         IN  [config |-> config, calls |-> <<Call("AutoConfig.from_pretrained", config, config_args)>>]

_load_t5_model(repo, config, model_args) ==
    [auto_model |-> T5EncoderModel_from_pretrained(repo, config),
     calls |-> <<Call("T5EncoderModel.from_pretrained", config, model_args)>>]

_load_mt5_model(repo, config, model_args) ==
    [auto_model |-> MT5EncoderModel_from_pretrained(repo, config),
     calls |-> <<Call("MT5EncoderModel.from_pretrained", config, model_args)>>]

_load_peft_model(loaded_model, config, model_args) ==
    IF isinstance(config, "PeftConfig")
    THEN [auto_model |-> PeftModel_from_pretrained(loaded_model.auto_model, config),
          calls |-> loaded_model.calls \o <<Call("PeftModel.from_pretrained", config, model_args)>>]
    ELSE loaded_model

\* a slip: no branch for the MT5 config
_load_model_without_mt5(repo, config, model_args) ==
    _load_peft_model(
        IF isinstance(config, "T5Config") THEN _load_t5_model(repo, config, model_args)
        ELSE [auto_model |-> AutoModel_from_pretrained(repo, config),
              calls |-> <<Call("AutoModel.from_pretrained", config, model_args)>>],
        config, model_args)

_load_model(repo, config, model_args) ==
    _load_peft_model(
        IF isinstance(config, "T5Config") THEN _load_t5_model(repo, config, model_args)
        ELSE IF isinstance(config, "MT5Config") THEN _load_mt5_model(repo, config, model_args)
        ELSE [auto_model |-> AutoModel_from_pretrained(repo, config),
              calls |-> <<Call("AutoModel.from_pretrained", config, model_args)>>],
        config, model_args)

\* lines 65-70: a None argument dictionary becomes an empty one
OrEmpty(d) == IF d = PyNone THEN EmptyDict ELSE d.v

\* lines 75-76: the tokenizer arguments after the constructor's update
TokenizerArgs(max_seq_length, tokenizer_args) ==
    IF max_seq_length # PyNone /\ "model_max_length" \notin DOMAIN tokenizer_args
    THEN Update(tokenizer_args, [k \in {"model_max_length"} |-> max_seq_length])
    ELSE tokenizer_args

\* lines 84-92: the resolved max_seq_length
InferMaxSeqLength(max_seq_length, auto_model, tokenizer) ==
    IF max_seq_length = PyNone
    THEN IF /\ "config" \in DOMAIN auto_model
            /\ hasattr(auto_model.config, "max_position_embeddings")
            /\ hasattr(tokenizer, "model_max_length")
         THEN PyInt(Min(auto_model.config.attrs.max_position_embeddings,
                        tokenizer.attrs.model_max_length))
         ELSE max_seq_length
    ELSE max_seq_length

\* lines 94-95
SetTokenizerClass(auto_model, tokenizer, tokenizer_name_or_path) ==
    IF tokenizer_name_or_path # PyNone
    THEN [auto_model EXCEPT !.config.attrs = Update(@, [k \in {"tokenizer_class"} |-> tokenizer.class])]
    ELSE auto_model

ConfigKeys == <<"max_seq_length", "do_lower_case">>

Unconstructed == [state |-> "unconstructed"]

OSError(calls_made) == [ok |-> FALSE, error |-> "OSError", calls |-> calls_made]

__init__(d, kw) ==
    LET model_args == OrEmpty(kw.model_args)
        config_args == OrEmpty(kw.config_args)
        repo == Resolve(d, kw.model_name_or_path.v)
    IN  IF repo = PyNone THEN OSError(<<Call("AutoConfig.from_pretrained", PyNone, config_args)>>)
        ELSE
        LET cfg == _load_config(repo, config_args)
            mdl == _load_model(repo, cfg.config, model_args)
            tokenizer_args == TokenizerArgs(kw.max_seq_length, OrEmpty(kw.tokenizer_args))
            tok_repo == Resolve(d, IF kw.tokenizer_name_or_path # PyNone
                                   THEN kw.tokenizer_name_or_path.v
                                   ELSE kw.model_name_or_path.v)
            loaders == cfg.calls \o mdl.calls
                       \o <<Call("AutoTokenizer.from_pretrained", PyNone, tokenizer_args)>>
        IN  IF tok_repo = PyNone THEN OSError(loaders)
            ELSE
            LET tokenizer == AutoTokenizer_from_pretrained(tok_repo, tokenizer_args)
            IN  [ok |-> TRUE,
                 calls |-> loaders,
                 self |-> [state |-> "constructed",
                           config_keys |-> ConfigKeys,
                           do_lower_case |-> kw.do_lower_case,
                           auto_model |-> SetTokenizerClass(mdl.auto_model, tokenizer,
                                                            kw.tokenizer_name_or_path),
                           tokenizer |-> tokenizer,
                           max_seq_length |-> InferMaxSeqLength(kw.max_seq_length,
                                                                mdl.auto_model, tokenizer)]]

get_config_dict(self) ==
    [i \in {self.config_keys[n] : n \in DOMAIN self.config_keys} |-> self[i]]

(***************************************************************************)
(* Texts.  A Python str is a sequence of characters; a batch element is a  *)
(* str, a dict (its entries in insertion order) or a tuple of strs.        *)
(***************************************************************************)
Str(chars) == [type |-> "str", v |-> chars]
Dict(entries) == [type |-> "dict", items |-> entries]
Tuple(elems) == [type |-> "tuple", v |-> elems]

Whitespace == {" "}

RECURSIVE lstrip(_)
lstrip(chars) ==
    IF chars # <<>> /\ Head(chars) \in Whitespace THEN lstrip(Tail(chars)) ELSE chars

RECURSIVE rstrip(_)
rstrip(chars) ==
    IF chars # <<>> /\ chars[Len(chars)] \in Whitespace
    THEN rstrip(SubSeq(chars, 1, Len(chars) - 1))
    ELSE chars

\* str.strip(): leading and trailing whitespace removed
strip(chars) == rstrip(lstrip(chars))

LowerChar(c) == IF c = "A" THEN "a" ELSE c

\* str.lower()
lower(chars) == [i \in DOMAIN chars |-> LowerChar(chars[i])]

\* repr() of a str
repr(chars) == <<"'">> \o chars \o <<"'">>

RECURSIVE ReprItems(_)
ReprItems(entries) ==
    IF entries = <<>> THEN <<>>
    ELSE repr(entries[1][1].v) \o <<":", " ">> \o repr(entries[1][2].v)
         \o (IF Len(entries) > 1 THEN <<",", " ">> ELSE <<>>) \o ReprItems(Tail(entries))

\* str(): a str is returned as it is, a dict or a tuple of strs is rendered
str(x) ==
    CASE x.type = "str" -> x.v
      [] x.type = "dict" -> <<"{">> \o ReprItems(x.items) \o <<"}">>
      [] x.type = "tuple" -> <<"(">> \o repr(x.v[1].v) \o <<",", " ">> \o repr(x.v[2].v) \o <<")">>

\* x[i] for i in {0, 1}, as the pair branch reads it (i is 1-based here)
Index(x, i) ==
    CASE x.type = "tuple" -> IF i <= Len(x.v) THEN [ok |-> TRUE, value |-> x.v[i]]
                              ELSE [ok |-> FALSE, error |-> "IndexError"]
      [] x.type = "str" -> IF i <= Len(x.v) THEN [ok |-> TRUE, value |-> Str(<<x.v[i]>>)]
                            ELSE [ok |-> FALSE, error |-> "IndexError"]
      [] x.type = "dict" -> [ok |-> FALSE, error |-> "KeyError"]

\* next(iter(lookup.items()))
FirstItem(x) ==
    IF x.type # "dict" THEN [ok |-> FALSE, error |-> "AttributeError"]
    ELSE IF x.items = <<>> THEN [ok |-> FALSE, error |-> "StopIteration"]
    ELSE [ok |-> TRUE, key |-> x.items[1][1], value |-> x.items[1][2]]

(***************************************************************************)
(* The tokenizer call of the library, in small: one token per character,   *)
(* truncation "longest_first" to max_length (the tokenizer's               *)
(* model_max_length when max_length is None), padding to the longest row.  *)
(***************************************************************************)
Pad == "<pad>"

RECURSIVE LongestFirst(_, _, _)
LongestFirst(a, b, limit) ==
    IF Len(a) + Len(b) <= limit THEN <<a, b>>
    ELSE IF Len(a) > Len(b) THEN LongestFirst(SubSeq(a, 1, Len(a) - 1), b, limit)
    ELSE LongestFirst(a, SubSeq(b, 1, Len(b) - 1), limit)

MaxOf(S) == IF S = {} THEN 0 ELSE CHOOSE m \in S : \A n \in S : n <= m

Fill(n, x) == [i \in 1..n |-> x]

tokenizer_call(tokenizer, columns, max_length) ==
    LET limit == IF max_length = PyNone THEN tokenizer.attrs.model_max_length ELSE max_length.v
        n == Len(columns[1])
        second(i) == IF Len(columns) > 1 THEN columns[2][i] ELSE <<>>
        cut == [i \in 1..n |-> LongestFirst(columns[1][i], second(i), limit)]
        width == MaxOf({Len(cut[i][1]) + Len(cut[i][2]) : i \in 1..n})
        padding(i) == width - Len(cut[i][1]) - Len(cut[i][2])
        encoding ==
            [input_ids |-> [i \in 1..n |-> cut[i][1] \o cut[i][2] \o Fill(padding(i), Pad)],
             token_type_ids |-> [i \in 1..n |-> Fill(Len(cut[i][1]), 0)
                                                \o Fill(Len(cut[i][2]), 1) \o Fill(padding(i), 0)],
             attention_mask |-> [i \in 1..n |-> Fill(Len(cut[i][1]) + Len(cut[i][2]), 1)
                                                \o Fill(padding(i), 0)]]
    IN  [k \in {"input_ids"} \cup tokenizer.attrs.model_input_names |-> encoding[k]]

(***************************************************************************)
(* Transformer.tokenize                                                    *)
(***************************************************************************)
Raise(error) == [ok |-> FALSE, error |-> error]

\* lines 199-205: the dict branch, one column of each dict's first value
RECURSIVE DictColumn(_)
DictColumn(batch) ==
    IF batch = <<>> THEN [ok |-> TRUE, to_tokenize |-> <<>>, text_keys |-> <<>>]
    ELSE LET item == FirstItem(batch[1])
             rest == DictColumn(Tail(batch))
         IN  IF ~item.ok THEN Raise(item.error)
             ELSE IF ~rest.ok THEN rest
             ELSE [ok |-> TRUE,
                   to_tokenize |-> <<item.value>> \o rest.to_tokenize,
                   text_keys |-> <<item.key>> \o rest.text_keys]

\* lines 207-211: the pair branch, two columns
RECURSIVE PairColumns(_)
PairColumns(batch) ==
    IF batch = <<>> THEN [ok |-> TRUE, batch1 |-> <<>>, batch2 |-> <<>>]
    ELSE LET first == Index(batch[1], 1)
             second == Index(batch[1], 2)
             rest == PairColumns(Tail(batch))
         IN  IF ~first.ok THEN Raise(first.error)
             ELSE IF ~second.ok THEN Raise(second.error)
             ELSE IF ~rest.ok THEN rest
             ELSE [ok |-> TRUE,
                   batch1 |-> <<first.value>> \o rest.batch1,
                   batch2 |-> <<second.value>> \o rest.batch2]

\* a slip: output starts with the text_keys list, whatever the shape of the batch
InitialOutputWithTextKeys == [k \in {"text_keys"} |-> <<>>]

\* line 195: output = {}
InitialOutput == EmptyDict

\* lines 195-211: the columns to tokenize and the entries of output set before the tokenizer call
Dispatch(batch) ==
    IF batch = <<>> THEN Raise("IndexError")
    ELSE IF batch[1].type = "str"
    THEN [ok |-> TRUE, to_tokenize |-> <<batch>>, output |-> InitialOutput]
    ELSE IF batch[1].type = "dict"
    THEN LET col == DictColumn(batch)
         IN  IF ~col.ok THEN col
             ELSE [ok |-> TRUE, to_tokenize |-> <<col.to_tokenize>>,
                   output |-> Update(InitialOutput, [k \in {"text_keys"} |-> col.text_keys])]
    ELSE LET cols == PairColumns(batch)
         IN  IF ~cols.ok THEN cols
             ELSE [ok |-> TRUE, to_tokenize |-> <<cols.batch1, cols.batch2>>,
                   output |-> InitialOutput]

\* line 214
StripColumns(to_tokenize) ==
    [c \in DOMAIN to_tokenize |-> [i \in DOMAIN to_tokenize[c] |-> strip(str(to_tokenize[c][i]))]]

\* a slip: the texts are lowercased whatever do_lower_case is
LowerColumnsAlways(self, to_tokenize) ==
    [c \in DOMAIN to_tokenize |-> [i \in DOMAIN to_tokenize[c] |-> lower(to_tokenize[c][i])]]

\* lines 217-218
LowerColumns(self, to_tokenize) ==
    IF Truthy(self.do_lower_case)
    THEN [c \in DOMAIN to_tokenize |-> [i \in DOMAIN to_tokenize[c] |-> lower(to_tokenize[c][i])]]
    ELSE to_tokenize

\* a slip: max_length is left out of the tokenizer call
TokenizerKwargsNoMaxLength(self, padding) ==
    [padding |-> padding, truncation |-> "longest_first", return_tensors |-> "ms",
     max_length |-> PyNone]

\* lines 220-228: the keyword arguments of the tokenizer call
TokenizerKwargs(self, padding) ==
    [padding |-> padding, truncation |-> "longest_first", return_tensors |-> "ms",
     max_length |-> self.max_seq_length]

tokenize(self, batch, padding) ==
    LET d == Dispatch(batch)
    IN  IF ~d.ok THEN d
        ELSE LET to_tokenize == LowerColumns(self, StripColumns(d.to_tokenize))
                 kwargs == TokenizerKwargs(self, padding)
             IN  [ok |-> TRUE,
                  call |-> [columns |-> to_tokenize, kwargs |-> kwargs],
                  output |-> Update(d.output,
                                    tokenizer_call(self.tokenizer, to_tokenize, kwargs.max_length))]

(***************************************************************************)
(* Transformer.forward.  The call of self.auto_model is the library's: it  *)
(* returns a tuple of tensors (named here by what they hold, with their    *)
(* size) or raises; which tuple depends on the architecture.               *)
(***************************************************************************)
Tensor(name, rows, width) == [name |-> name, size |-> <<rows, width>>]

IsPromptLearning(auto_model) ==
    /\ auto_model.active_peft_config # PyNone
    /\ auto_model.active_peft_config.attrs.is_prompt_learning

\* the tuples of names a model may return with return_dict=False
OutputNames(auto_model) ==
    IF auto_model.config.attrs.output_hidden_states
    THEN {<<"last_hidden_state", "hidden_states">>,
          <<"last_hidden_state", "pooler_output", "hidden_states">>,
          <<"last_hidden_state", "hidden_states", "attentions">>,
          <<"last_hidden_state", "pooler_output", "hidden_states", "attentions">>}
    ELSE {<<"last_hidden_state">>, <<"last_hidden_state", "pooler_output">>}

Width(matrix) == IF matrix = <<>> THEN 0 ELSE Len(matrix[1])

\* self.auto_model(**trans_features, return_dict=False): every outcome the library may produce.
\* A mask that is not as wide as input_ids is the library's to accept or to reject.
auto_model_call(auto_model, trans_features) ==
    LET rows == Len(trans_features["input_ids"])
        width == Width(trans_features["input_ids"])
                 + (IF IsPromptLearning(auto_model)
                    THEN auto_model.active_peft_config.attrs.num_virtual_tokens ELSE 0)
    IN  {[ok |-> TRUE, value |-> [i \in DOMAIN names |-> Tensor(names[i], rows, width)]] :
            names \in OutputNames(auto_model)}
        \cup (IF Width(trans_features["attention_mask"]) # Width(trans_features["input_ids"])
              THEN {Raise("RuntimeError")} ELSE {})

\* ops.ones(rows, columns)
ones(rows, columns) == [i \in 1..rows |-> [j \in 1..columns |-> 1]]

\* ops.cat((a, b), dim=1) of two matrices with the same number of rows
cat(a, b) == [i \in DOMAIN a |-> a[i] \o b[i]]

\* lines 155-157: the keys forward reads from the dictionary
ForwardKeys == {"input_ids", "attention_mask", "token_type_ids"}

\* lines 155-157
TransFeatures(feats) ==
    [k \in {"input_ids", "attention_mask"} \cup ({"token_type_ids"} \cap DOMAIN feats) |-> feats[k]]

\* lines 165-174
ExtendAttentionMask(self, feats, output_tokens) ==
    IF /\ isinstance(self.auto_model, "PeftModelForFeatureExtraction")
       /\ self.auto_model.active_peft_config.attrs.is_prompt_learning
    THEN LET batch_size == output_tokens.size[1]
             attention_mask == feats["attention_mask"]
             prefix_attention_mask ==
                 ones(batch_size, self.auto_model.active_peft_config.attrs.num_virtual_tokens)
         IN  Update(feats, [k \in {"attention_mask"} |-> cat(prefix_attention_mask, attention_mask)])
    ELSE feats

\* lines 178-184
AllLayerEmbeddings(self, feats, output_states) ==
    IF self.auto_model.config.attrs.output_hidden_states /\ Len(output_states) > 2
    THEN LET all_layer_idx == IF Len(output_states) < 3 THEN 1 ELSE 2
         IN  Update(feats, [k \in {"all_layer_embeddings"} |-> output_states[all_layer_idx + 1]])
    ELSE feats

\* forward with the outcome of the model call given
forward(self, feats, outcome) ==
    IF ~({"input_ids", "attention_mask"} \subseteq DOMAIN feats) THEN Raise("KeyError")
    ELSE IF ~outcome.ok THEN outcome
    ELSE LET output_states == outcome.value
             output_tokens == output_states[1]
             extended == ExtendAttentionMask(self, feats, output_tokens)
             embedded == Update(extended, [k \in {"token_embeddings"} |-> output_tokens])
         IN  [ok |-> TRUE,
              output_states |-> output_states,
              features |-> AllLayerEmbeddings(self, embedded, output_states)]

(***************************************************************************)
(* Transformer.save and Transformer.load                                   *)
(***************************************************************************)
CONFIG_NAMES ==
    <<"sentence_bert_config.json",
      "sentence_roberta_config.json",
      "sentence_distilbert_config.json",
      "sentence_camembert_config.json",
      "sentence_albert_config.json",
      "sentence_xlm-roberta_config.json",
      "sentence_xlnet_config.json">>

\* what auto_model.save_pretrained and tokenizer.save_pretrained leave in the directory
SavedRepo(self) ==
    Repo(self.auto_model.active_peft_config, self.auto_model.config, self.tokenizer)

\* a slip: only the first config key is written
SavedConfigFirstKeyOnly(self) ==
    json_dump(PyDict([k \in {self.config_keys[1]} |-> self[k]]))

\* lines 238-239
SavedConfig(self) == json_dump(PyDict(get_config_dict(self)))

save(self, d) ==
    [model |-> SavedRepo(self),
     files |-> Update(d.files, [k \in {CONFIG_NAMES[1]} |-> SavedConfig(self)])]

\* a slip: the loop does not stop at the first name that exists
RECURSIVE ConfigPathWithoutBreak(_, _)
ConfigPathWithoutBreak(d, i) ==
    IF i = Len(CONFIG_NAMES) THEN CONFIG_NAMES[i]
    ELSE LET later == ConfigPathWithoutBreak(d, i + 1)
         IN  IF later \in DOMAIN d.files \/ CONFIG_NAMES[i] \notin DOMAIN d.files
             THEN later ELSE CONFIG_NAMES[i]

\* lines 244-255: the path left in sbert_config_path when the loop ends
RECURSIVE ConfigPath(_, _)
ConfigPath(d, i) ==
    IF i = Len(CONFIG_NAMES) \/ CONFIG_NAMES[i] \in DOMAIN d.files
    THEN CONFIG_NAMES[i]
    ELSE ConfigPath(d, i + 1)

ArgsKeys == <<"model_args", "tokenizer_args", "config_args">>

\* a slip: only model_args is looked at
StripModelArgsOnly(config, i) ==
    IF /\ "model_args" \in DOMAIN config
       /\ config["model_args"].type = "dict"
       /\ "trust_remote_code" \in DOMAIN config["model_args"].v
    THEN [ok |-> TRUE,
          config |-> Update(config, [k \in {"model_args"} |->
                                        PyDict(Pop(config["model_args"].v, "trust_remote_code"))])]
    ELSE [ok |-> TRUE, config |-> config]

\* lines 260-265: the three checks in turn; the membership test of a value that is no dict raises
RECURSIVE StripTrustRemoteCode(_, _)
StripTrustRemoteCode(config, i) ==
    IF i > Len(ArgsKeys) THEN [ok |-> TRUE, config |-> config]
    ELSE LET key == ArgsKeys[i]
         IN  IF key \notin DOMAIN config THEN StripTrustRemoteCode(config, i + 1)
             ELSE IF config[key].type # "dict" THEN Raise("TypeError")
             ELSE IF "trust_remote_code" \in DOMAIN config[key].v
             THEN StripTrustRemoteCode(
                      Update(config, [k \in {key} |-> PyDict(Pop(config[key].v, "trust_remote_code"))]),
                      i + 1)
             ELSE StripTrustRemoteCode(config, i + 1)

\* the keyword parameters of __init__ with their defaults (lines 54-60)
Defaults ==
    [max_seq_length |-> PyNone, model_args |-> PyNone, tokenizer_args |-> PyNone,
     config_args |-> PyNone, cache_dir |-> PyNone, do_lower_case |-> PyBool(FALSE),
     tokenizer_name_or_path |-> PyNone]

\* cls(model_name_or_path=input_path, **config)
Kwargs(input_path, config) ==
    Update(Update(Defaults, config), [k \in {"model_name_or_path"} |-> PyStr(input_path)])

NotLoaded == [ok |-> FALSE, error |-> "not called", path |-> "", calls |-> <<>>]

\* a slip: a config that cannot be read is taken to be empty
ReadConfigOrEmpty(d, sbert_config_path) ==
    IF sbert_config_path \notin DOMAIN d.files \/ d.files[sbert_config_path] = Malformed
    THEN [ok |-> TRUE, value |-> PyDict(EmptyDict)]
    ELSE json_load(d.files[sbert_config_path])

\* lines 257-258: open() raises when nothing is at the path, json.load when the text is no JSON
ReadConfig(d, sbert_config_path) ==
    IF sbert_config_path \notin DOMAIN d.files THEN Raise("FileNotFoundError")
    ELSE json_load(d.files[sbert_config_path])

load(d, input_path) ==
    LET sbert_config_path == ConfigPath(d, 1)
        failed(error) == [ok |-> FALSE, error |-> error, path |-> sbert_config_path, calls |-> <<>>]
        parsed == ReadConfig(d, sbert_config_path)
    IN  IF ~parsed.ok THEN failed(parsed.error)
        ELSE IF parsed.value.type # "dict" THEN failed("TypeError")
        ELSE LET stripped == StripTrustRemoteCode(parsed.value.v, 1)
             IN  IF ~stripped.ok THEN failed(stripped.error)
                 ELSE IF ~(DOMAIN stripped.config \subseteq DOMAIN Defaults) THEN failed("TypeError")
                 ELSE LET kw == Kwargs(input_path, stripped.config)
                          made == __init__(d, kw)
                      IN  IF made.ok
                          THEN [ok |-> TRUE, path |-> sbert_config_path, kwargs |-> kw,
                                calls |-> made.calls, self |-> made.self]
                          ELSE [ok |-> FALSE, error |-> made.error, path |-> sbert_config_path,
                                kwargs |-> kw, calls |-> made.calls]

(***************************************************************************)
(* Bounds and the inputs drawn from them                                   *)
(***************************************************************************)
\* the longest text of a batch, in characters
MaxStrLen == 2

\* the largest max_seq_length a caller passes
MaxSeqLength == 2

\* forward calls on one feature dictionary
MaxForward == 2

\* a whitespace character, an upper-case letter and a lower-case one
Chars == {" ", "A", "b"}

Strings(n) == UNION {[1..k -> Chars] : k \in 0..n}

Keys == {Str(<<"q">>), Str(<<"d">>)}

\* dicts with one entry, and with a second entry whose value differs from the first
Dicts ==
    {Dict(<<>>)}
    \cup {Dict(<<<<k, Str(s)>>>>) : k \in Keys, s \in Strings(MaxStrLen)}
    \cup {Dict(<<<<k, Str(s)>>, <<k2, Str(s \o <<"A">>)>>>>) :
            k \in Keys, k2 \in Keys, s \in Strings(MaxStrLen)} 

Pairs == {Tuple(<<Str(a), Str(b)>>) : a \in Strings(MaxStrLen), b \in Strings(1)}

Elements == {Str(s) : s \in Strings(MaxStrLen)} \cup Dicts \cup Pairs

\* what follows the first element of a batch: nothing, or one element of each shape
Tails ==
    {<<>>, <<Str(<<" ", "A", " ">>)>>, <<Str(<<>>)>>, <<Dict(<<<<Str(<<"d">>), Str(<<"A", " ">>)>>>>)>>,
     <<Tuple(<<Str(<<" ">>), Str(<<"A", "A", "A">>)>>)>>}

Batches == {<<>>} \cup {<<e>> \o tail : e \in Elements, tail \in Tails}

\* a batch long enough for every max_seq_length to truncate it
LongBatch == <<Str(<<" ", "A", "A", " ", "A", "A", "A", " ">>), Str(<<"A">>)>>
LongPairs == <<Tuple(<<Str(<<"A", "A", "A", "A">>), Str(<<"A", " ", "A">>)>>)>>

SeqLengths == {PyNone} \cup {PyInt(n) : n \in 1..MaxSeqLength}

CallArgs(names, lengths, tokenizer_args, config_args, lowercase, tokenizer_names) ==
    {[model_name_or_path |-> PyStr(name), max_seq_length |-> n, model_args |-> PyNone,
      tokenizer_args |-> ta, config_args |-> ca, cache_dir |-> PyNone,
      do_lower_case |-> PyBool(lc), tokenizer_name_or_path |-> tn] :
        name \in names, n \in lengths, ta \in tokenizer_args, ca \in config_args,
        lc \in lowercase, tn \in tokenizer_names}

ModelMaxLength(n) == PyDict([k \in {"model_max_length"} |-> PyInt(n)])

OutputHiddenStates == PyDict([k \in {"output_hidden_states"} |-> PyBool(TRUE)])

EmptyDisk == [model |-> PyNone, files |-> EmptyDict]

\* a directory an earlier version saved a model to
LegacyDisk(files) == [model |-> Hub["bert"], files |-> files]

\* the config file an earlier version left under the i-th name
LegacyConfig(i) ==
    json_dump(PyDict([max_seq_length |-> PyInt(i), do_lower_case |-> PyBool(i % 2 = 1)]))

\* every choice of: absent, a legacy config, or a text that is no JSON, for each of the names
LegacyFiles ==
    UNION {{[n \in {CONFIG_NAMES[i] : i \in present} |->
                IF n \in {CONFIG_NAMES[i] : i \in broken} THEN Malformed
                ELSE LegacyConfig(CHOOSE i \in present : CONFIG_NAMES[i] = n)] :
            broken \in SUBSET present} : present \in SUBSET DOMAIN CONFIG_NAMES}

ArgsValues ==
    {PyNone, PyDict(EmptyDict),
     PyDict([trust_remote_code |-> PyBool(TRUE)]),
     PyDict([revision |-> PyInt(1)]),
     PyDict([trust_remote_code |-> PyBool(TRUE), revision |-> PyInt(1)]),
     PyDict([trust_remote_code |-> PyBool(FALSE), model_max_length |-> PyInt(1)]),
     PyDict([output_hidden_states |-> PyBool(TRUE)])}

\* side-configs with any of the three argument dictionaries, and some with a key __init__ does not take
SideConfigs ==
    UNION {{json_dump(PyDict(Update([k \in keys |-> f[k]], scalars))) :
              f \in [keys -> ArgsValues],
              scalars \in {EmptyDict, [max_seq_length |-> PyInt(1), do_lower_case |-> PyBool(TRUE)],
                           [pooling_mode |-> PyInt(1)]}} :
           keys \in SUBSET {"model_args", "tokenizer_args", "config_args"}}

NoFeatures == [none |-> TRUE]
NoCall == [ok |-> FALSE, error |-> "not called"]
NoForward == [n |-> 0, ok |-> FALSE, error |-> "not called"]
NotSaved == [none |-> TRUE]

Start(a, d, b) ==
    /\ args = a
    /\ disk = d
    /\ texts = b
    /\ t = Unconstructed
    /\ calls = <<>>
    /\ loaded = NotLoaded
    /\ features = NoFeatures
    /\ tok_call = NoCall
    /\ fwd = NoForward
    /\ saved = NotSaved

(***************************************************************************)
(* The operations                                                          *)
(***************************************************************************)
\* Transformer(**args).  args keeps the arguments as the caller passed them: the update of
\* tokenizer_args (line 76) shows in the keyword arguments of the tokenizer loader's call.
Construct ==
    /\ t = Unconstructed
    /\ LET made == __init__(disk, args)
       IN  /\ calls' = made.calls
           /\ IF made.ok THEN t' = made.self ELSE UNCHANGED t
    /\ UNCHANGED <<args, disk, loaded, texts, features, tok_call, fwd, saved>>

\* features = t.tokenize(texts)
Tokenize ==
    /\ t # Unconstructed
    /\ LET r == tokenize(t, texts, TRUE)
       IN  IF r.ok
           THEN /\ features' = r.output
                /\ tok_call' = [ok |-> TRUE, columns |-> r.call.columns, kwargs |-> r.call.kwargs,
                                returned |-> r.output]
                /\ fwd' = NoForward
           ELSE /\ tok_call' = r
                /\ UNCHANGED <<features, fwd>>
    /\ UNCHANGED <<args, t, calls, disk, loaded, texts, saved>>

\* t.forward(features), on a dictionary tokenize returned, any number of times
Forward ==
    /\ t # Unconstructed
    /\ features # NoFeatures
    /\ fwd.n < MaxForward
    /\ \E outcome \in auto_model_call(t.auto_model, TransFeatures(features)) :
          LET r == forward(t, features, outcome)
          IN  IF r.ok
              THEN /\ features' = r.features
                   /\ fwd' = [n |-> fwd.n + 1, ok |-> TRUE, before |-> features,
                              output_states |-> r.output_states, returned |-> r.features]
              ELSE /\ fwd' = [n |-> fwd.n + 1, ok |-> FALSE, error |-> r.error]
                   /\ UNCHANGED features
    /\ UNCHANGED <<args, t, calls, disk, loaded, texts, tok_call, saved>>

\* t.save(OutputPath)
Save ==
    /\ t # Unconstructed
    /\ disk' = save(t, disk)
    /\ saved' = get_config_dict(t)
    /\ UNCHANGED <<args, t, calls, loaded, texts, features, tok_call, fwd>>

\* Transformer.load(OutputPath)
Load ==
    /\ loaded' = load(disk, OutputPath) @@ [from |-> disk, after_save |-> saved]
    /\ UNCHANGED <<args, t, calls, disk, texts, features, tok_call, fwd, saved>>

Next == Construct \/ Tokenize \/ Forward

NextPersist == Construct \/ Save \/ Load

\* construction over every model class, length and tokenizer argument
InitConstruct ==
    \E a \in CallArgs(DOMAIN Hub \cup {"nowhere"}, SeqLengths,
                      {PyNone, PyDict(EmptyDict), ModelMaxLength(1), ModelMaxLength(5)},
                      {PyNone}, {FALSE}, {PyNone, PyStr("t5")}),
       b \in {LongBatch, LongPairs} :
        Start(a, EmptyDisk, b)

\* tokenization over every batch
InitTokenize ==
    \E a \in CallArgs({"bert", "t5"}, {PyNone, PyInt(MaxSeqLength)}, {PyNone}, {PyNone},
                      BOOLEAN, {PyNone}),
       b \in Batches :
        Start(a, EmptyDisk, b)

\* the forward pass over every adapter and with hidden states on and off
InitForward ==
    \E a \in CallArgs(DOMAIN Hub, {PyNone}, {PyNone}, {PyNone, OutputHiddenStates},
                      {FALSE}, {PyNone}),
       b \in {LongBatch, LongPairs, <<Dict(<<<<Str(<<"q">>), Str(<<"A">>)>>>>)>>} :
        Start(a, EmptyDisk, b)

\* save and load: every constructor call over a directory that is empty or holds a legacy
\* model; every choice of legacy config files; every side-config under two of the names
InitPersist ==
    \/ \E a \in CallArgs(DOMAIN Hub, SeqLengths, {PyNone, ModelMaxLength(1)},
                         {PyNone, OutputHiddenStates}, BOOLEAN, {PyNone, PyStr("t5")}),
          d \in {EmptyDisk, LegacyDisk([k \in {CONFIG_NAMES[2]} |-> LegacyConfig(2)])} :
           Start(a, d, LongBatch)
    \/ \E a \in CallArgs({"bert"}, {PyInt(1)}, {PyNone}, {PyNone}, {TRUE}, {PyNone}),
          f \in LegacyFiles :
           Start(a, LegacyDisk(f), LongBatch)
    \/ \E a \in CallArgs({"bert"}, {PyInt(1)}, {PyNone}, {PyNone}, {TRUE}, {PyNone}),
          doc \in SideConfigs, i \in {1, 3} :
           Start(a, LegacyDisk([k \in {CONFIG_NAMES[i]} |-> doc]), LongBatch)

Init == InitConstruct \/ InitTokenize \/ InitForward

\* construction, tokenization and the forward pass
Spec == Init /\ [][Next]_vars

\* construction, save and load
SpecPersist == InitPersist /\ [][NextPersist]_vars

(***************************************************************************)
(* Properties of construction, tokenization and the forward pass (Spec)    *)
(***************************************************************************)
BaseLoaders ==
    {"T5EncoderModel.from_pretrained", "MT5EncoderModel.from_pretrained", "AutoModel.from_pretrained"}

LoaderFor(config) ==
    IF isinstance(config, "T5Config") THEN "T5EncoderModel.from_pretrained"
    ELSE IF isinstance(config, "MT5Config") THEN "MT5EncoderModel.from_pretrained"
    ELSE "AutoModel.from_pretrained"

\* C6: a constructed Transformer invoked exactly one base-model loader, the T5 encoder for a
\* T5Config, the MT5 encoder for an MT5Config and AutoModel otherwise; its auto_model is a
\* PeftModel exactly when the resolved config is a PeftConfig, which it is exactly when an
\* adapter config file is found for model_name_or_path.
C6_ModelClassResolution ==
    t # Unconstructed =>
        LET config == calls[1].config
            base == {i \in DOMAIN calls : calls[i].fn \in BaseLoaders}
            adapter_found == Hub[args.model_name_or_path.v].adapter # PyNone
        IN  /\ Cardinality(base) = 1
            /\ \A i \in base : calls[i].fn = LoaderFor(config) /\ calls[i].config = config
            /\ isinstance(t.auto_model, "PeftModel") <=> isinstance(config, "PeftConfig")
            /\ isinstance(config, "PeftConfig") <=> adapter_found

C6_Witness ==
    /\ t # Unconstructed
    /\ isinstance(calls[1].config, "MT5Config")
    /\ \E i \in DOMAIN calls : calls[i].fn = "MT5EncoderModel.from_pretrained"
    /\ t.auto_model.class = "MT5EncoderModel"

PresetModelMaxLength ==
    /\ args.tokenizer_args # PyNone
    /\ "model_max_length" \in DOMAIN args.tokenizer_args.v

\* C7: after construction max_seq_length is the caller's value when one is given, and that
\* value is the tokenizer's model_max_length unless tokenizer_args sets model_max_length;
\* when none is given it is the smaller of the model's max_position_embeddings and the
\* tokenizer's model_max_length if both exist and None otherwise; every tokenizer call gets
\* max_seq_length as max_length with truncation on, and no row of input_ids is longer.
C7_MaxSeqLength ==
    /\ (t # Unconstructed /\ args.max_seq_length # PyNone) =>
          /\ t.max_seq_length = args.max_seq_length
          /\ t.tokenizer.attrs.model_max_length =
                IF PresetModelMaxLength THEN args.tokenizer_args.v.model_max_length.v
                ELSE args.max_seq_length.v
    /\ (t # Unconstructed /\ args.max_seq_length = PyNone) =>
          IF /\ "max_position_embeddings" \in DOMAIN t.auto_model.config.attrs
             /\ "model_max_length" \in DOMAIN t.tokenizer.attrs
          THEN /\ t.max_seq_length.type = "int"
               /\ t.max_seq_length.v <= t.auto_model.config.attrs.max_position_embeddings
               /\ t.max_seq_length.v <= t.tokenizer.attrs.model_max_length
               /\ t.max_seq_length.v \in {t.auto_model.config.attrs.max_position_embeddings,
                                          t.tokenizer.attrs.model_max_length}
          ELSE t.max_seq_length = PyNone
    /\ tok_call.ok =>
          /\ tok_call.kwargs.max_length = t.max_seq_length
          /\ tok_call.kwargs.truncation = "longest_first"
          /\ t.max_seq_length # PyNone =>
                \A i \in DOMAIN tok_call.returned.input_ids :
                    Len(tok_call.returned.input_ids[i]) <= t.max_seq_length.v

C7_Witness ==
    /\ tok_call.ok
    /\ args.max_seq_length = PyInt(1)
    /\ PresetModelMaxLength
    /\ t.tokenizer.attrs.model_max_length = 5
    /\ \E c \in DOMAIN tok_call.columns : \E i \in DOMAIN tok_call.columns[c] :
          Len(tok_call.columns[c][i]) > 1
    /\ Width(tok_call.returned.input_ids) = 1

\* r is what reaches the tokenizer for the text s: s without its leading and trailing
\* whitespace, in lower case if and only if do_lower_case is set
ReachesTokenizer(r, s, do_lower_case) ==
    \E i \in 1..(Len(s) + 1), j \in 0..Len(s) :
        LET mid == SubSeq(s, i, j)
        IN  /\ \A k \in 1..Len(s) : (k < i \/ k > j) => s[k] \in Whitespace
            /\ mid # <<>> => (mid[1] \notin Whitespace /\ mid[Len(mid)] \notin Whitespace)
            /\ Len(r) = Len(mid)
            /\ \A k \in 1..Len(mid) :
                  r[k] = IF do_lower_case /\ mid[k] = "A" THEN "a" ELSE mid[k]

\* C10: tokenize picks the shape from the first element: strings give one column; dicts give
\* one column of each dict's first value with text_keys holding each dict's first key, in
\* order and as many as the batch; anything else gives two columns of element 0 and element 1
\* of each item; every text is stripped, and lowercased if and only if do_lower_case is set.
C10_InputShapeDispatch ==
    tok_call.ok =>
        LET columns == tok_call.columns
            lc == t.do_lower_case.v
        IN  CASE texts[1].type = "str" ->
                    /\ Len(columns) = 1
                    /\ Len(columns[1]) = Len(texts)
                    /\ "text_keys" \notin DOMAIN tok_call.returned
                    /\ \A i \in DOMAIN texts :
                          texts[i].type = "str" => ReachesTokenizer(columns[1][i], texts[i].v, lc)
              [] texts[1].type = "dict" ->
                    /\ Len(columns) = 1
                    /\ Len(columns[1]) = Len(texts)
                    /\ Len(tok_call.returned.text_keys) = Len(texts)
                    /\ \A i \in DOMAIN texts :
                          /\ tok_call.returned.text_keys[i] = texts[i].items[1][1]
                          /\ ReachesTokenizer(columns[1][i], texts[i].items[1][2].v, lc)
              [] OTHER ->
                    /\ Len(columns) = 2
                    /\ Len(columns[1]) = Len(texts)
                    /\ Len(columns[2]) = Len(texts)
                    /\ \A i \in DOMAIN texts :
                          texts[i].type = "tuple" =>
                              /\ ReachesTokenizer(columns[1][i], texts[i].v[1].v, lc)
                              /\ ReachesTokenizer(columns[2][i], texts[i].v[2].v, lc)

C10_Witness ==
    /\ tok_call.ok
    /\ Len(texts) = 2
    /\ texts[1].type = "dict"
    /\ Len(texts[1].items) = 2
    /\ texts[1].items[1][2].v = <<" ", "A">>
    /\ texts[1].items[1][1] # texts[1].items[2][1]
    /\ ~t.do_lower_case.v
    /\ tok_call.columns[1][1] = <<"A">>
    /\ tok_call.returned.text_keys = <<texts[1].items[1][1], Str(<<"d">>)>>

\* C2 as stated: every key of the dictionary tokenize returns is a key forward expects.
C2_KeysSubsetOfForwardKeys ==
    tok_call.ok => DOMAIN tok_call.returned \subseteq ForwardKeys

\* C2, amended: every key of the dictionary tokenize returns is a key forward expects or
\* text_keys, and text_keys is there exactly when the first element of the batch is a dict.
C2_KeysSubsetExceptTextKeys ==
    tok_call.ok =>
        /\ DOMAIN tok_call.returned \subseteq ForwardKeys \cup {"text_keys"}
        /\ "text_keys" \in DOMAIN tok_call.returned <=> texts[1].type = "dict"

C2_Witness ==
    /\ tok_call.ok
    /\ texts[1].type = "dict"
    /\ DOMAIN tok_call.returned = ForwardKeys \cup {"text_keys"}

OutputStateNames == [i \in DOMAIN fwd.output_states |-> fwd.output_states[i].name]

\* C8 as stated: with output_hidden_states set forward stores the hidden states under
\* all_layer_embeddings, from index 2 of (last_hidden_state, pooler_output, hidden_states) and
\* from index 1 of (last_hidden_state, hidden_states); without it the key is not added.
C8_AllLayerEmbeddings ==
    fwd.ok =>
        IF t.auto_model.config.attrs.output_hidden_states
        THEN /\ OutputStateNames = <<"last_hidden_state", "pooler_output", "hidden_states">> =>
                   /\ "all_layer_embeddings" \in DOMAIN fwd.returned
                   /\ fwd.returned["all_layer_embeddings"] = fwd.output_states[3]
             /\ OutputStateNames = <<"last_hidden_state", "hidden_states">> =>
                   /\ "all_layer_embeddings" \in DOMAIN fwd.returned
                   /\ fwd.returned["all_layer_embeddings"] = fwd.output_states[2]
        ELSE "all_layer_embeddings" \in DOMAIN fwd.returned =>
                 "all_layer_embeddings" \in DOMAIN fwd.before

AllOnes(matrix, columns) ==
    \A i \in DOMAIN matrix : \A j \in 1..columns : j <= Len(matrix[i]) /\ matrix[i][j] = 1

\* C9 as stated: after any forward call on the dictionary, the dictionary returned is the one
\* given, with token_embeddings the model's first output; input_ids and token_type_ids are as
\* before; attention_mask is as before unless auto_model is a prompt-learning
\* PeftModelForFeatureExtraction, and then it has the same number of rows, is as wide as
\* input_ids plus num_virtual_tokens, and starts with num_virtual_tokens columns of ones.
C9_ForwardFrame ==
    fwd.ok =>
        /\ fwd.returned = features
        /\ features["token_embeddings"] = fwd.output_states[1]
        /\ features["input_ids"] = fwd.before["input_ids"]
        /\ "token_type_ids" \in DOMAIN features <=> "token_type_ids" \in DOMAIN fwd.before
        /\ "token_type_ids" \in DOMAIN features =>
              features["token_type_ids"] = fwd.before["token_type_ids"]
        /\ IF /\ t.auto_model.class = "PeftModelForFeatureExtraction"
              /\ t.auto_model.active_peft_config.attrs.is_prompt_learning
           THEN /\ Len(features["attention_mask"]) = Len(fwd.before["attention_mask"])
                /\ Width(features["attention_mask"]) =
                      Width(features["input_ids"])
                      + t.auto_model.active_peft_config.attrs.num_virtual_tokens
                /\ AllOnes(features["attention_mask"],
                           t.auto_model.active_peft_config.attrs.num_virtual_tokens)
           ELSE features["attention_mask"] = fwd.before["attention_mask"]

(***************************************************************************)
(* Properties of save and load (SpecPersist)                               *)
(***************************************************************************)
LoadCalled == "from" \in DOMAIN loaded

\* the candidate names that exist in a directory, by their place in the list
Existing(d) == {i \in DOMAIN CONFIG_NAMES : CONFIG_NAMES[i] \in DOMAIN d.files}

FirstExisting(d) == CHOOSE i \in Existing(d) : \A j \in Existing(d) : i <= j

\* C1: after t.save(p) the file sentence_bert_config.json holds exactly the config keys
\* max_seq_length and do_lower_case with t's values, and a Transformer.load(p) that follows
\* yields an object whose get_config_dict() equals t.get_config_dict().
C1_SaveLoadRoundTrip ==
    /\ saved # NotSaved =>
          LET doc == disk.files["sentence_bert_config.json"]
          IN  /\ doc.j = "object"
              /\ DOMAIN doc.m = {"max_seq_length", "do_lower_case"}
              /\ doc.m["max_seq_length"] =
                    IF t.max_seq_length = PyNone THEN [j |-> "null"]
                    ELSE [j |-> "number", n |-> t.max_seq_length.v]
              /\ doc.m["do_lower_case"] =
                    IF t.do_lower_case.v THEN [j |-> "true"] ELSE [j |-> "false"]
    /\ (LoadCalled /\ loaded.after_save # NotSaved) =>
          /\ loaded.ok
          /\ DOMAIN get_config_dict(loaded.self) = {"max_seq_length", "do_lower_case"}
          /\ get_config_dict(loaded.self) = get_config_dict(t)
          /\ loaded.self.max_seq_length = t.max_seq_length
          /\ loaded.self.do_lower_case = t.do_lower_case

C1_Witness ==
    /\ LoadCalled
    /\ loaded.after_save # NotSaved
    /\ loaded.ok
    /\ "sentence_roberta_config.json" \in DOMAIN loaded.from.files
    /\ t.max_seq_length = PyNone
    /\ t.do_lower_case = PyBool(TRUE)
    /\ loaded.self.do_lower_case = PyBool(TRUE)

\* the side-config as json.load returned it to load
ConfigRead == json_value(loaded.from.files[loaded.path]).v

\* C3: the model_args, tokenizer_args and config_args load passes to the constructor hold no
\* trust_remote_code key, and every other key and value of the side-config is passed as it is.
C3_NoTrustRemoteCode ==
    (LoadCalled /\ "kwargs" \in DOMAIN loaded) =>
        /\ \A a \in {"model_args", "tokenizer_args", "config_args"} :
              loaded.kwargs[a].type = "dict" => "trust_remote_code" \notin DOMAIN loaded.kwargs[a].v
        /\ \A k \in DOMAIN ConfigRead :
              IF k \in {"model_args", "tokenizer_args", "config_args"} /\ ConfigRead[k].type = "dict"
              THEN /\ loaded.kwargs[k].type = "dict"
                   /\ DOMAIN loaded.kwargs[k].v = DOMAIN ConfigRead[k].v \ {"trust_remote_code"}
                   /\ \A x \in DOMAIN loaded.kwargs[k].v : loaded.kwargs[k].v[x] = ConfigRead[k].v[x]
              ELSE loaded.kwargs[k] = ConfigRead[k]

C3_Witness ==
    /\ LoadCalled
    /\ loaded.ok
    /\ DOMAIN ConfigRead = {"model_args", "tokenizer_args", "config_args"}
    /\ ConfigRead["model_args"] = PyDict([trust_remote_code |-> PyBool(TRUE), revision |-> PyInt(1)])
    /\ "trust_remote_code" \in DOMAIN ConfigRead["tokenizer_args"].v
    /\ "trust_remote_code" \in DOMAIN ConfigRead["config_args"].v
    /\ loaded.kwargs["model_args"] = PyDict([revision |-> PyInt(1)])

\* C4: load reads the first of the seven candidate names, in list order, that exists in the
\* directory: sentence_bert_config.json whenever it exists, whatever legacy files exist too.
C4_ConfigFileResolution ==
    (LoadCalled /\ Existing(loaded.from) # {}) =>
        /\ loaded.path = CONFIG_NAMES[FirstExisting(loaded.from)]
        /\ "sentence_bert_config.json" \in DOMAIN loaded.from.files =>
              loaded.path = "sentence_bert_config.json"
        /\ (loaded.from.files[CONFIG_NAMES[FirstExisting(loaded.from)]] # Malformed
            /\ "kwargs" \in DOMAIN loaded) =>
              \A k \in {"max_seq_length", "do_lower_case"} :
                  LET doc == loaded.from.files[CONFIG_NAMES[FirstExisting(loaded.from)]]
                  IN  k \in DOMAIN doc.m => json_dump(loaded.kwargs[k]) = doc.m[k]

C4_Witness ==
    /\ LoadCalled
    /\ loaded.ok
    /\ Existing(loaded.from) = {3, 5, 7}
    /\ loaded.path = "sentence_distilbert_config.json"
    /\ loaded.self.max_seq_length = PyInt(3)

\* C5: when no candidate config file exists, or the one found is no valid JSON, load ends in
\* the error of the file read or of the JSON parser, constructs no Transformer, calls no
\* loader, and falls back on no other file and on no default.
C5_MissingOrMalformedConfig ==
    LoadCalled =>
        /\ Existing(loaded.from) = {} =>
              /\ ~loaded.ok
              /\ loaded.error = "FileNotFoundError"
              /\ loaded.calls = <<>>
              /\ DOMAIN loaded \cap {"self", "kwargs"} = {}
        /\ (Existing(loaded.from) # {}
            /\ loaded.from.files[CONFIG_NAMES[FirstExisting(loaded.from)]] = Malformed) =>
              /\ ~loaded.ok
              /\ loaded.error = "JSONDecodeError"
              /\ loaded.calls = <<>>
              /\ DOMAIN loaded \cap {"self", "kwargs"} = {}

C5_Witness ==
    /\ LoadCalled
    /\ Existing(loaded.from) = {2, 4}
    /\ loaded.from.files[CONFIG_NAMES[2]] = Malformed
    /\ loaded.from.files[CONFIG_NAMES[4]] # Malformed
    /\ loaded.error = "JSONDecodeError"
    /\ loaded.path = "sentence_roberta_config.json"

====
